---- MODULE Spec2Model ----
(***************************************************************************)
(* State-machine model of cypress-graphql-mock (src/src/index.ts): the     *)
(* process-wide base slots, the per-session closure installed by           *)
(* mockGraphql, the fetch wrapper, setOperations, and the pure helpers     *)
(* getRootValue, mergeMocks, isObject, resolveMocks.                       *)
(***************************************************************************)
EXTENDS Integers, Sequences, FiniteSets, TLC

VARIABLES
  commonMocks,      \* index.ts:28  module-level slot
  commonOptions,    \* index.ts:29  module-level slot
  session,          \* index.ts:108-134 closure of one mockGraphql call
  history,          \* options of the setOperations calls made so far
  requests,         \* intercepted requests in flight / answered
  passed,           \* calls forwarded to originalFetch, in order
  now,              \* milliseconds elapsed (setTimeout clock)
  log,              \* the calls made to the two base setters, in order
  args,             \* arguments of the last call of an operation
  ret               \* outcome of the last call of an operation

vars == <<commonMocks, commonOptions, session, history, requests, passed, now, log, args, ret>>

-----------------------------------------------------------------------------
(* JavaScript values.  Every value is a record [kind, id, fields] so that   *)
(* any two values can be compared.  fields maps each field name to its      *)
(* value, NoField when the object has no such own property.                 *)

FieldNames == {"name", "age"}
FieldVals == {"A", "B"}
NoField == "-"
NoFields == [f \in FieldNames |-> NoField]
FieldMaps == [FieldNames -> FieldVals \cup {NoField}]

V(k, i, f) == [kind |-> k, id |-> i, fields |-> f]

Undefined == V("undefined", 0, NoFields)
Null == V("null", 0, NoFields)
Num(n) == V("number", n, NoFields)
Str(n) == V("string", n, NoFields)      \* Str(0) is the empty string
Arr(n) == V("array", n, NoFields)
Fn(n) == V("function", n, NoFields)
Obj(f) == V("object", 0, f)
Err(n) == V("error", n, NoFields)
EmptyObj == Obj(NoFields)

\* Error objects a handler can throw or return, by constructor.
GraphQLErrorLocal == Err(1)     \* new GraphQLError(..) of the imported graphql
GraphQLErrorForeign == Err(2)   \* GraphQLError of another bundle: same name only
PlainError == Err(3)            \* new Error(..)
TypeErrorValue == Err(4)        \* TypeError raised by the runtime

\* A property that is not an own property of a table.
Absent == V("absent", 0, NoFields)

\* typeof what
TypeOf(v) ==
  CASE v.kind = "undefined" -> "undefined"
    [] v.kind = "number" -> "number"
    [] v.kind = "string" -> "string"
    [] v.kind = "function" -> "function"
    [] OTHER -> "object"            \* null, arrays, objects, errors

\* ToBoolean(v), as used by !x, x || y and if (x)
Truthy(v) ==
  ~ \/ v.kind \in {"undefined", "null"}
    \/ (v.kind \in {"number", "string"} /\ v.id = 0)

IsArray(v) == v.kind = "array"

\* { ...a, ...b } on the own enumerable fields of two values
SpreadFields(a, b) ==
  [f \in FieldNames |-> IF b.fields[f] # NoField THEN b.fields[f] ELSE a.fields[f]]

isObject(what) == TypeOf(what) = "object" /\ ~IsArray(what)

-----------------------------------------------------------------------------
(* Tables (operation table, mock table, resolver table): a function from    *)
(* key names to values, Absent where the table has no such own key.         *)

Keys(t) == {k \in DOMAIN t : t[k] # Absent}

\* Properties every object literal inherits from Object.prototype; reading
\* table[key] finds them when the table has no own key of that name.
InheritedName == "constructor"
ObjectCtor == Fn(0)
Inherited(k) == IF k = InheritedName THEN ObjectCtor ELSE Undefined

\* table[key]
Get(t, k) ==
  IF k \in DOMAIN t /\ t[k] # Absent THEN t[k] ELSE Inherited(k)

\* A spread in which the entries of a win over those of b
SpreadTablesFirstWins(a, b) ==
  [k \in DOMAIN a |-> IF a[k] # Absent THEN a[k]
                      ELSE IF k \in DOMAIN b THEN b[k] ELSE Absent]

\* { ...a, ...b } on two tables over the same key space; b may be undefined
\* (NoTable), which spreads to nothing
SpreadTables(a, b) ==
  [k \in DOMAIN a |-> IF k \in DOMAIN b /\ b[k] # Absent THEN b[k] ELSE a[k]]

-----------------------------------------------------------------------------
(* Operation handlers.  A handler is a function supplied by the test; the   *)
(* model knows each by its id and by what it does when called.              *)

PingResult == Obj([name |-> "A", age |-> NoField])

Handlers == {Fn(i) : i \in 1..8}

\* op(variables): [threw, val]
Invoke(op, variables) ==
  CASE op.id = 0 ->      \* Object(variables), reached through Object.prototype
         [threw |-> FALSE,
          val |-> IF variables.kind \in {"undefined", "null"} THEN EmptyObj ELSE variables]
    [] op.id = 1 -> [threw |-> FALSE, val |-> PingResult]
    [] op.id = 2 -> [threw |-> TRUE, val |-> GraphQLErrorLocal]
    [] op.id = 3 -> [threw |-> TRUE, val |-> GraphQLErrorForeign]
    [] op.id = 4 -> [threw |-> TRUE, val |-> PlainError]
    [] op.id = 5 -> [threw |-> TRUE, val |-> Null]
    [] op.id = 6 -> [threw |-> FALSE, val |-> variables]
    [] op.id = 7 -> [threw |-> FALSE, val |-> Undefined]
    [] OTHER -> [threw |-> FALSE, val |-> GraphQLErrorLocal]

\* Operation names: own keys a table may have, and what a request may ask for.
OpNames == {"Ping", "Fails"}
MissingName == ""                 \* operationName undefined or ""
RequestNames == OpNames \cup {MissingName, "Other", InheritedName}

NameTruthy(operationName) == operationName # MissingName

Returned(v, calls) == [val |-> v, raised |-> FALSE, calls |-> calls]

\* getRootValue with the try/catch removed
getRootValueNoCatch(operations, operationName, variables) ==
  IF ~NameTruthy(operationName) \/ ~Truthy(Get(operations, operationName))
  THEN Returned(EmptyObj, <<>>)
  ELSE LET op == Get(operations, operationName)
       IN  IF TypeOf(op) = "function"
           THEN LET r == Invoke(op, variables)
                IN  [val |-> r.val, raised |-> r.threw,
                     calls |-> <<[fn |-> op, arg |-> variables]>>]
           ELSE Returned(op, <<>>)

\* getRootValue testing the entry against undefined instead of its truthiness
getRootValueOwnKey(operations, operationName, variables) ==
  IF ~NameTruthy(operationName) \/ Get(operations, operationName) = Undefined
  THEN Returned(EmptyObj, <<>>)
  ELSE LET op == Get(operations, operationName)
       IN  IF TypeOf(op) = "function"
           THEN Returned(Invoke(op, variables).val, <<[fn |-> op, arg |-> variables]>>)
           ELSE Returned(op, <<>>)

\* getRootValue(operations, operationName, variables): the value returned, whether
\* the call raised, and the handler invocations it made
getRootValue(operations, operationName, variables) ==
  IF ~NameTruthy(operationName) \/ ~Truthy(Get(operations, operationName))
  THEN Returned(EmptyObj, <<>>)
  ELSE LET op == Get(operations, operationName)
       IN  IF TypeOf(op) = "function"
           THEN Returned(Invoke(op, variables).val, <<[fn |-> op, arg |-> variables]>>)
           ELSE Returned(op, <<>>)

-----------------------------------------------------------------------------
(* Mock and resolver tables.                                                *)

MockKeys == {"User", "EnumField"}

\* objectMap(object, mapFn): mapFn over the own keys of object; mapFn[key] is
\* what mapFn gives for (object[key], key)
objectMap(object, mapFn) ==
  [k \in DOMAIN object |-> IF object[k] = Absent THEN Absent ELSE mapFn[k]]

\* mergeMocks replacing every entry wholesale
mergeMocksShallow(currentMocks, mocks) == SpreadTables(currentMocks, mocks)

mergeMocks(currentMocks, mocks) ==
  SpreadTables(currentMocks,
    objectMap(mocks, [key \in DOMAIN mocks |->
      LET value == mocks[key]
          currentValue == Get(currentMocks, key)
      IN  IF isObject(currentValue) /\ isObject(value)
          THEN Obj(SpreadFields(currentValue, value))
          ELSE value]))

\* A function made by resolveMocks: () => m
Thunk(m) == [kind |-> "thunk", id |-> m.id, fields |-> m.fields, of |-> m.kind]

\* resolveMocks wrapping every entry, functions too
resolveMocksWrappingAll(mocks) ==
  objectMap(mocks, [key \in DOMAIN mocks |-> Thunk(mocks[key])])

resolveMocks(mocks) ==
  objectMap(mocks, [key \in DOMAIN mocks |->
    LET m == mocks[key] IN IF m.kind = "function" THEN m ELSE Thunk(m)])

-----------------------------------------------------------------------------
(* Strings.  Names, endpoints and URLs are strings; Text gives the          *)
(* characters of each, for indexOf.                                         *)

NoString == "undefined"           \* the field is not given
DefaultEndpoint == "/graphql"
Text(str) ==
  CASE str = "/graphql" -> <<"/", "g", "r", "a", "p", "h", "q", "l">>
    [] str = "/api" -> <<"/", "a", "p", "i">>
    [] str = "/api/graphql?x" ->
         <<"/", "a", "p", "i", "/", "g", "r", "a", "p", "h", "q", "l", "?", "x">>
    [] str = "/graph" -> <<"/", "g", "r", "a", "p", "h">>
    [] str = "/rest/api" -> <<"/", "r", "e", "s", "t", "/", "a", "p", "i">>
    [] str = "users" -> <<"u", "s", "e", "r", "s">>
    [] OTHER -> <<>>

\* input.indexOf(endpoint): the first position (from 0) where endpoint occurs, or -1
IndexOf(input, endpoint) ==
  LET s == Text(input)
      sub == Text(endpoint)
      hits == {i \in 0..(Len(s) - Len(sub)) : SubSeq(s, i + 1, i + Len(sub)) = sub}
  IN  IF hits = {} THEN -1 ELSE CHOOSE i \in hits : \A j \in hits : i <= j

\* `mockGraphqlOps:${x}`
AliasWith(x) ==
  CASE x = "/graphql" -> "mockGraphqlOps:/graphql"
    [] x = "/api" -> "mockGraphqlOps:/api"
    [] x = "users" -> "mockGraphqlOps:users"
    [] OTHER -> "mockGraphqlOps:?"

\* getAlias giving the fixed default whatever the fields
getAliasDefaultOnly(o) == "mockGraphqlOps"

\* getAlias({ name, endpoint })
getAlias(o) ==
  IF o.name # NoString \/ o.endpoint # NoString
  THEN AliasWith(IF o.name # NoString THEN o.name ELSE o.endpoint)
  ELSE "mockGraphqlOps"

Aliases ==
  {"mockGraphqlOps", "mockGraphqlOps:/graphql", "mockGraphqlOps:/api", "mockGraphqlOps:users"}

-----------------------------------------------------------------------------
(* Options (MockGraphQLOptions, SetOperationsOpts).  A field that is not    *)
(* given holds NoString, NoTable or Undefined.                              *)

NoTable == [k \in {} |-> Absent]
EmptyOps == [k \in OpNames |-> Absent]        \* {}
EmptyMocks == [k \in MockKeys |-> Absent]     \* {}

Opt(n, e, o, m, r, d, sch) ==
  [name |-> n, endpoint |-> e, operations |-> o, mocks |-> m, resolvers |-> r,
   delay |-> d, schema |-> sch]
NoOptions == Opt(NoString, NoString, NoTable, NoTable, NoTable, Undefined, Undefined)

\* a || b
Or(a, b) == IF Truthy(a) THEN a ELSE b

\* mergedOptions taken from the call's own options alone
SpreadOptionsOwnOnly(common, options) == options

\* { ...(commonOptions || {}), ...(options || {}) }
SpreadOptions(common, options) ==
  LET c == IF common = Null THEN NoOptions ELSE common
  IN  [name |-> IF options.name # NoString THEN options.name ELSE c.name,
       endpoint |-> IF options.endpoint # NoString THEN options.endpoint ELSE c.endpoint,
       operations |-> IF options.operations # NoTable THEN options.operations ELSE c.operations,
       mocks |-> IF options.mocks # NoTable THEN options.mocks ELSE c.mocks,
       resolvers |-> IF options.resolvers # NoTable THEN options.resolvers ELSE c.resolvers,
       delay |-> IF options.delay # Undefined THEN options.delay ELSE c.delay,
       schema |-> IF options.schema # Undefined THEN options.schema ELSE c.schema]

NoSession ==
  [installed |-> FALSE, wrapped |-> FALSE, endpoint |-> NoString, schema |-> Undefined,
   currentDelay |-> Undefined, currentOps |-> EmptyOps, currentMocks |-> EmptyMocks,
   currentResolvers |-> EmptyMocks]
\* What is remembered of a handle: the configuration and the options of the
\* mockGraphql call that registered it, the name and endpoint fields it was
\* registered from, those of the earlier sessions that lost the handle to a
\* session registered from other fields (their closures live on, out of reach
\* of cy.get), and the options of the setOperations calls made through it.
NoFieldsGiven == [name |-> NoString, endpoint |-> NoString]
NoHistory ==
  [install |-> NoOptions, options |-> NoOptions, fields |-> NoFieldsGiven,
   displaced |-> {}, calls |-> <<>>]
NoRet == [done |-> FALSE]

Ok(v) == [done |-> TRUE, threw |-> FALSE, val |-> v]
Threw(e) == [done |-> TRUE, threw |-> TRUE, val |-> e]
SetupError == Err(5)              \* new Error("... may only be called once ...")

-----------------------------------------------------------------------------
(* Input domains.                                                           *)

ObjectValues == {Obj(f) : f \in FieldMaps}
SomeObjects ==
  {EmptyObj,
   Obj([name |-> "A", age |-> NoField]),
   Obj([name |-> "B", age |-> NoField]),
   Obj([name |-> NoField, age |-> "A"]),
   Obj([name |-> "A", age |-> "B"])}
FalsyValues == {Undefined, Null, Num(0), Str(0)}
Primitives == FalsyValues \cup {Num(1), Str(1)}

\* Values of an operation table entry (index.ts:15, Record<string, any>)
OpEntries ==
  {Absent} \cup FalsyValues \cup {Num(1), Arr(1), PingResult, EmptyObj} \cup Handlers
OpTables == [OpNames -> OpEntries]

\* Request variables (index.ts:25)
VariableValues == {Undefined, EmptyObj, Obj([name |-> "B", age |-> NoField])}

\* Values of a mock or resolver table entry (index.ts:16-17)
MockEntries == {Absent, Null, Num(0), Arr(1), Fn(1)} \cup SomeObjects
MockTables == [MockKeys -> MockEntries]

NoArgs == [fn |-> "none"]

\* The state right after the module is loaded (index.ts:28-29), before any call.
Loaded ==
  /\ commonMocks = Null
  /\ commonOptions = Null
  /\ session = [a \in Aliases |-> NoSession]
  /\ history = [a \in Aliases |-> NoHistory]
  /\ requests = <<>>
  /\ passed = <<>>
  /\ now = 0
  /\ log = <<>>

-----------------------------------------------------------------------------
(* getRootValue as a call: the arguments are chosen, then the call is made. *)

InitRoot ==
  /\ Loaded
  /\ args \in {[fn |-> "getRootValue", operations |-> t, operationName |-> n, variables |-> v] :
                 t \in OpTables, n \in RequestNames, v \in VariableValues}
  /\ ret = NoRet

CallGetRootValue ==
  /\ args.fn = "getRootValue"
  /\ ~ret.done
  /\ LET r == getRootValue(args.operations, args.operationName, args.variables)
     IN  ret' = [done |-> TRUE, val |-> r.val, raised |-> r.raised, calls |-> r.calls]
  /\ UNCHANGED <<commonMocks, commonOptions, session, history, requests, passed, now, log, args>>

NextRoot == CallGetRootValue
SpecRoot == InitRoot /\ [][NextRoot]_vars

(* mergeMocks as a call.                                                    *)

InitMerge ==
  /\ Loaded
  /\ args \in {[fn |-> "mergeMocks", currentMocks |-> b, mocks |-> o] :
                 b \in MockTables, o \in MockTables}
  /\ ret = NoRet

CallMergeMocks ==
  /\ args.fn = "mergeMocks"
  /\ ~ret.done
  /\ ret' = [done |-> TRUE, val |-> mergeMocks(args.currentMocks, args.mocks)]
  /\ UNCHANGED <<commonMocks, commonOptions, session, history, requests, passed, now, log, args>>

NextMerge == CallMergeMocks
SpecMerge == InitMerge /\ [][NextMerge]_vars

-----------------------------------------------------------------------------
(* Root-value resolution.                                                   *)

RootCalled == args.fn = "getRootValue" /\ ret.done
RootEntry == Get(args.operations, args.operationName)
RootOwnEntry ==
  IF args.operationName \in OpNames THEN args.operations[args.operationName] ELSE Absent

\* C4: when the table entry for the operation name is a function, getRootValue
\* does not raise; it calls that function once with the request variables and
\* returns what the function returned, or the very value the function threw.
C4_FunctionEntryNeverRaises ==
  (RootCalled /\ NameTruthy(args.operationName) /\ RootOwnEntry.kind = "function") =>
    /\ ~ret.raised
    /\ ret.calls = <<[fn |-> RootOwnEntry, arg |-> args.variables]>>
    /\ ret.val = Invoke(RootOwnEntry, args.variables).val

\* C4 witness: a handler that threw a value, and getRootValue returned it.
C4_Witness ==
  /\ RootCalled
  /\ RootOwnEntry.kind = "function"
  /\ Invoke(RootOwnEntry, args.variables).threw
  /\ ret.val = PlainError

\* C5: for an operation name that is missing or is not a key of the table,
\* getRootValue returns an empty mapping and invokes no function.
C5_AbsentNameGivesEmpty ==
  (RootCalled /\ RootOwnEntry = Absent) => (ret.val = EmptyObj /\ ret.calls = <<>>)

\* C6: for an operation name that is a key of the table with a non-function
\* value, getRootValue returns exactly that value.
C6_LiteralEntryReturned ==
  (RootCalled /\ NameTruthy(args.operationName)
     /\ RootOwnEntry # Absent /\ RootOwnEntry.kind # "function") =>
    ret.val = RootOwnEntry

\* C6 amended: a truthy non-function entry is returned exactly as it is, without
\* any call; a falsy entry (undefined, null, 0, "") gives an empty mapping.
C6_TruthyLiteralEntryReturned ==
  (RootCalled /\ NameTruthy(args.operationName)
     /\ RootOwnEntry # Absent /\ RootOwnEntry.kind # "function") =>
    /\ ret.calls = <<>>
    /\ ~ret.raised
    /\ ret.val = IF Truthy(RootOwnEntry) THEN RootOwnEntry ELSE EmptyObj

\* C6 witness: a literal array entry came back as the root value.
C6_Witness ==
  /\ RootCalled
  /\ RootOwnEntry = Arr(1)
  /\ ret.val = Arr(1)

-----------------------------------------------------------------------------
(* Override merging.                                                        *)

MergeCalled == args.fn = "mergeMocks" /\ ret.done
IsPlainObject(v) == v.kind = "object"       \* a non-array, non-null object

\* C9: for every key present in both tables, the merged value is the shallow
\* union of the two values (override's fields winning) when both are non-array
\* plain objects, and is exactly the override's value when either is an array,
\* a primitive or a function.
C9_MergedValueAtSharedKey ==
  MergeCalled =>
    \A k \in Keys(args.currentMocks) \cap Keys(args.mocks) :
      LET b == args.currentMocks[k]
          o == args.mocks[k]
      IN  IF IsPlainObject(b) /\ IsPlainObject(o)
          THEN /\ ret.val[k].kind = "object"
               /\ \A f \in FieldNames :
                    ret.val[k].fields[f] =
                      IF o.fields[f] # NoField THEN o.fields[f] ELSE b.fields[f]
          ELSE ret.val[k] = o

\* The part of C9 the code satisfies: the same statement for values that are
\* not null.
MergedValueAtSharedKeyNoNull ==
  MergeCalled =>
    \A k \in Keys(args.currentMocks) \cap Keys(args.mocks) :
      LET b == args.currentMocks[k]
          o == args.mocks[k]
      IN  (b # Null /\ o # Null) =>
            IF IsPlainObject(b) /\ IsPlainObject(o)
            THEN ret.val[k] = Obj(SpreadFields(b, o))
            ELSE ret.val[k] = o

-----------------------------------------------------------------------------
(* The process-wide base slots.                                             *)

MaxSetterCalls == 3

\* Arguments of the two setters: objects (CypressMockBaseTypes).
BaseMocks ==
  {[User |-> Fn(1), EnumField |-> Fn(1)],
   [User |-> Obj([name |-> "A", age |-> NoField]), EnumField |-> Absent],
   EmptyMocks}
SchemaText == Str(1)
BaseOptions ==
  {Opt(NoString, NoString, NoTable, NoTable, NoTable, Undefined, SchemaText),
   Opt(NoString, "/api", NoTable, NoTable, NoTable, Num(1), SchemaText),
   NoOptions}

\* !commonMocks, !commonOptions: a slot holds null or an object
SlotEmpty(slot) == slot = Null

Logged(f, arg, failed) == [fn |-> f, arg |-> arg, threw |-> failed]

\* setBaseGraphqlMocks storing its argument on every call
setBaseGraphqlMocksOverwriting(mocks) ==
  /\ Len(log) < MaxSetterCalls
  /\ commonMocks' = mocks
  /\ ret' = Ok(mocks)
  /\ log' = Append(log, Logged("setBaseGraphqlMocks", mocks, FALSE))
  /\ args' = [fn |-> "setBaseGraphqlMocks", arg |-> mocks]
  /\ UNCHANGED <<commonOptions, session, history, requests, passed, now>>

setBaseGraphqlMocks(mocks) ==
  /\ Len(log) < MaxSetterCalls
  /\ IF SlotEmpty(commonMocks)
     THEN commonMocks' = mocks /\ ret' = Ok(mocks)
     ELSE UNCHANGED commonMocks /\ ret' = Threw(SetupError)
  /\ log' = Append(log, Logged("setBaseGraphqlMocks", mocks, ~SlotEmpty(commonMocks)))
  /\ args' = [fn |-> "setBaseGraphqlMocks", arg |-> mocks]
  /\ UNCHANGED <<commonOptions, session, history, requests, passed, now>>

setBaseOperationOptions(options) ==
  /\ Len(log) < MaxSetterCalls
  /\ IF SlotEmpty(commonOptions)
     THEN commonOptions' = options /\ ret' = Ok(options)
     ELSE UNCHANGED commonOptions /\ ret' = Threw(SetupError)
  /\ log' = Append(log, Logged("setBaseOperationOptions", options, ~SlotEmpty(commonOptions)))
  /\ args' = [fn |-> "setBaseOperationOptions", arg |-> options]
  /\ UNCHANGED <<commonMocks, session, history, requests, passed, now>>

InitCalls == Loaded /\ args = NoArgs /\ ret = NoRet

NextGlobals ==
  \/ \E mocks \in BaseMocks : setBaseGraphqlMocks(mocks)
  \/ \E options \in BaseOptions : setBaseOperationOptions(options)
SpecGlobals == InitCalls /\ [][NextGlobals]_vars

CallsOf(f) == {i \in 1..Len(log) : log[i].fn = f}
FirstOf(S) == CHOOSE i \in S : \A j \in S : i <= j

\* What a slot must hold given the calls made to its setter: null before the
\* first call, the first call's argument ever after; the first call succeeds
\* and every later one fails.
SetOnce(f, slot) ==
  IF CallsOf(f) = {}
  THEN slot = Null
  ELSE /\ slot = log[FirstOf(CallsOf(f))].arg
       /\ \A i \in CallsOf(f) : log[i].threw <=> (i # FirstOf(CallsOf(f)))

\* C1: after any sequence of calls of the two setters, each slot holds the
\* argument of the first call of its setter, that call succeeded, every later
\* call of the same setter failed with the setup error, and so no failing call
\* changed either slot.
C1_BaseSlotsSetOnce ==
  /\ SetOnce("setBaseGraphqlMocks", commonMocks)
  /\ SetOnce("setBaseOperationOptions", commonOptions)
  /\ (ret.done /\ ret.threw) => ret.val = SetupError

\* C1 witness: base mocks were set, a second call with other mocks failed, and
\* the slot still holds the first mocks.
C1_Witness ==
  /\ Len(log) >= 2
  /\ log[1].fn = "setBaseGraphqlMocks" /\ log[2].fn = "setBaseGraphqlMocks"
  /\ log[1].arg # log[2].arg
  /\ log[2].threw
  /\ commonMocks = log[1].arg

-----------------------------------------------------------------------------
(* Sessions: mockGraphql, the window:before:load hook, mockGraphqlOps.      *)

MaxCalls == 2          \* setOperations calls per session

SchemaError == Err(6)  \* new Error("Schema must be provided ...")
AliasError == Err(7)   \* cy.get() of an alias that was never registered

\* setOperations leaving the delay alone when the call gives none
setOperationsKeepingDelay(c, options) ==
  [c EXCEPT
     !.currentDelay = IF options.delay = Undefined THEN @ ELSE options.delay,
     !.currentOps = SpreadTables(@, options.operations),
     !.currentResolvers =
        IF options.resolvers # NoTable THEN mergeMocks(@, options.resolvers) ELSE @,
     !.currentMocks = IF options.mocks # NoTable THEN mergeMocks(@, options.mocks) ELSE @]

\* setOperations merging the operation table the way it merges mocks
setOperationsMergingOps(c, options) ==
  [c EXCEPT
     !.currentDelay = Or(options.delay, Num(0)),
     !.currentOps = IF options.operations # NoTable THEN mergeMocks(@, options.operations) ELSE @,
     !.currentResolvers =
        IF options.resolvers # NoTable THEN mergeMocks(@, options.resolvers) ELSE @,
     !.currentMocks = IF options.mocks # NoTable THEN mergeMocks(@, options.mocks) ELSE @]

\* setOperations emptying the mock table when the call gives no mocks
setOperationsResettingMocks(c, options) ==
  [c EXCEPT
     !.currentDelay = Or(options.delay, Num(0)),
     !.currentOps = SpreadTables(@, options.operations),
     !.currentResolvers =
        IF options.resolvers # NoTable THEN mergeMocks(@, options.resolvers) ELSE @,
     !.currentMocks = IF options.mocks # NoTable THEN mergeMocks(@, options.mocks)
                      ELSE EmptyMocks]

\* setOperations(options) on the closure c of one session
setOperations(c, options) ==
  [c EXCEPT
     !.currentDelay = Or(options.delay, Num(0)),
     !.currentOps = SpreadTables(@, options.operations),
     !.currentResolvers =
        IF options.resolvers # NoTable THEN mergeMocks(@, options.resolvers) ELSE @,
     !.currentMocks = IF options.mocks # NoTable THEN mergeMocks(@, options.mocks) ELSE @]

\* Cypress.Commands.add("mockGraphql", ...)
mockGraphql(options) ==
  LET mergedOptions == SpreadOptions(commonOptions, options)
      endpoint == IF mergedOptions.endpoint = NoString
                  THEN DefaultEndpoint ELSE mergedOptions.endpoint
      delay == IF mergedOptions.delay = Undefined THEN Num(0) ELSE mergedOptions.delay
      operations == IF mergedOptions.operations = NoTable
                    THEN EmptyOps ELSE mergedOptions.operations
      mocks == IF mergedOptions.mocks = NoTable THEN EmptyMocks ELSE mergedOptions.mocks
      resolvers == IF mergedOptions.resolvers = NoTable
                   THEN EmptyMocks ELSE mergedOptions.resolvers
      schema == mergedOptions.schema
      alias == getAlias(mergedOptions)
      given == [name |-> mergedOptions.name, endpoint |-> mergedOptions.endpoint]
  IN  /\ args' = [fn |-> "mockGraphql", options |-> options]
      /\ IF ~Truthy(schema)
         THEN /\ ret' = Threw(SchemaError)
              /\ UNCHANGED <<session, history>>
         ELSE /\ session' = [session EXCEPT ![alias] =
                   [installed |-> TRUE, wrapped |-> FALSE, endpoint |-> endpoint,
                    schema |-> schema, currentDelay |-> delay, currentOps |-> operations,
                    currentMocks |-> mocks, currentResolvers |-> resolvers]]
              /\ history' = [history EXCEPT ![alias] =
                   [install |-> Opt(mergedOptions.name, endpoint, operations, mocks,
                                     resolvers, delay, schema),
                    options |-> options,
                    fields |-> given,
                    displaced |->
                      (history[alias].displaced \cup
                         (IF session[alias].installed THEN {history[alias].fields} ELSE {}))
                      \ {given},
                    calls |-> <<>>]]
              /\ ret' = Ok(Undefined)
      /\ UNCHANGED <<commonMocks, commonOptions, requests, passed, now, log>>

\* cy.on("window:before:load", ...): the page loads and every installed session
\* replaces the window's fetch by its wrapper
windowBeforeLoad ==
  /\ \E a \in Aliases : session[a].installed /\ ~session[a].wrapped
  /\ session' = [a \in Aliases |->
                   IF session[a].installed THEN [session[a] EXCEPT !.wrapped = TRUE]
                   ELSE session[a]]
  /\ UNCHANGED <<commonMocks, commonOptions, history, requests, passed, now, log, args, ret>>

\* Cypress.Commands.add("mockGraphqlOps", ...) with an options object
mockGraphqlOps(options) ==
  LET alias == getAlias(options)
  IN  /\ Len(history[alias].calls) < MaxCalls
      /\ args' = [fn |-> "mockGraphqlOps", options |-> options]
      /\ IF ~session[alias].installed
         THEN /\ ret' = Threw(AliasError)
              /\ UNCHANGED <<session, history>>
         ELSE /\ session' = [session EXCEPT ![alias] = setOperations(@, options)]
              /\ history' = [history EXCEPT ![alias].calls = Append(@, options)]
              /\ ret' = Ok(Undefined)
      /\ UNCHANGED <<commonMocks, commonOptions, requests, passed, now, log>>

\* Cypress.Commands.add("mockGraphqlOps", ...) called with no argument:
\* the alias is getAlias({}) and setOperations(undefined) reads options.delay
mockGraphqlOpsNoArgument ==
  LET alias == getAlias(NoOptions)
  IN  /\ args' = [fn |-> "mockGraphqlOps", options |-> Undefined]
      /\ ret' = IF ~session[alias].installed THEN Threw(AliasError) ELSE Threw(TypeErrorValue)
      /\ UNCHANGED <<commonMocks, commonOptions, session, history, requests, passed, now, log>>

-----------------------------------------------------------------------------
(* One session and the overrides applied to it.                             *)

NameA == Obj([name |-> "A", age |-> NoField])
NameB == Obj([name |-> "B", age |-> NoField])
AgeA == Obj([name |-> NoField, age |-> "A"])
AgeB == Obj([name |-> NoField, age |-> "B"])
NameAAgeB == Obj([name |-> "A", age |-> "B"])

InstallOptions ==
  {Opt(NoString, NoString, NoTable, NoTable, NoTable, Undefined, SchemaText),
   Opt(NoString, NoString, [Ping |-> NameAAgeB, Fails |-> Fn(2)],
       [User |-> NameAAgeB, EnumField |-> Fn(1)], [User |-> AgeA, EnumField |-> Absent],
       Num(2), SchemaText),
   Opt(NoString, NoString, [Ping |-> Arr(1), Fails |-> Absent],
       [User |-> Arr(1), EnumField |-> Absent], NoTable, Num(1), SchemaText),
   NoOptions}

OverrideDelays == {Undefined, Num(0), Num(1)}
OverrideOps ==
  {NoTable, EmptyOps,
   [Ping |-> NameB, Fails |-> Absent],
   [Ping |-> AgeA, Fails |-> Fn(4)],
   [Ping |-> Absent, Fails |-> Null]}
OverrideMocks ==
  {NoTable,
   [User |-> NameA, EnumField |-> Absent],
   [User |-> NameB, EnumField |-> Absent],
   [User |-> AgeA, EnumField |-> Fn(1)],
   [User |-> Arr(1), EnumField |-> Absent],
   [User |-> Absent, EnumField |-> NameA]}
OverrideResolvers ==
  {NoTable, [User |-> NameA, EnumField |-> Absent], [User |-> AgeB, EnumField |-> Absent]}

OverrideOptions ==
  {Opt(NoString, NoString, o, NoTable, NoTable, d, Undefined) :
     o \in OverrideOps, d \in OverrideDelays}
  \cup {Opt(NoString, NoString, NoTable, m, r, Undefined, Undefined) :
          m \in OverrideMocks, r \in OverrideResolvers}
  \cup {Opt(NoString, NoString, [Ping |-> NameB, Fails |-> Absent],
            [User |-> NameB, EnumField |-> Absent], [User |-> AgeB, EnumField |-> Absent],
            Num(1), Undefined)}

NextSession ==
  \/ \E options \in InstallOptions : mockGraphql(options)
  \/ \E options \in OverrideOptions : mockGraphqlOps(options)
SpecSession == InitCalls /\ [][NextSession]_vars

Overridden(a) == session[a].installed /\ history[a].calls # <<>>
LastCall(a) == history[a].calls[Len(history[a].calls)]
Latest(S) == CHOOSE i \in S : \A j \in S : j <= i

\* C7: after an apply-overrides call, the session's delay is the delay the call
\* gave, or zero when it gave none, whatever the delay was before.
C7_DelayReplaced ==
  \A a \in Aliases :
    Overridden(a) =>
      session[a].currentDelay =
        IF LastCall(a).delay = Undefined THEN Num(0) ELSE LastCall(a).delay

\* C7 witness: a session installed with delay 2 whose last override gave no delay.
C7_Witness ==
  \E a \in Aliases :
    /\ Overridden(a)
    /\ history[a].install.delay = Num(2)
    /\ LastCall(a).delay = Undefined
    /\ session[a].currentDelay = Num(0)

\* The calls of session a whose operations have name as a key.
CallsNamingOp(a, name) ==
  {i \in 1..Len(history[a].calls) :
     /\ history[a].calls[i].operations # NoTable
     /\ history[a].calls[i].operations[name] # Absent}

\* C8: the operation table maps each name to the entry of the most recent
\* override call whose operations had that name, or to the installation-time
\* entry when no call had it: entries are replaced whole and none is dropped.
C8_OperationTableShallowOverride ==
  \A a \in Aliases :
    session[a].installed =>
      \A name \in OpNames :
        session[a].currentOps[name] =
          IF CallsNamingOp(a, name) = {}
          THEN history[a].install.operations[name]
          ELSE history[a].calls[Latest(CallsNamingOp(a, name))].operations[name]

\* C8 witness: an object entry given at installation was replaced by an object
\* with other fields, and an entry the call did not mention was kept.
C8_Witness ==
  \E a \in Aliases :
    /\ Overridden(a)
    /\ history[a].install.operations = [Ping |-> NameAAgeB, Fails |-> Fn(2)]
    /\ LastCall(a).operations = [Ping |-> NameB, Fails |-> Absent]
    /\ session[a].currentOps = [Ping |-> NameB, Fails |-> Fn(2)]

\* The calls of session a whose table (mocks or resolvers) has key k.
CallsNamingKey(a, table, k) ==
  {i \in 1..Len(history[a].calls) :
     /\ history[a].calls[i][table] # NoTable
     /\ history[a].calls[i][table][k] # Absent}
CallsSettingField(a, table, k, f) ==
  {i \in CallsNamingKey(a, table, k) : history[a].calls[i][table][k].fields[f] # NoField}

\* The entry of key k after override calls that all gave k a plain object: an
\* object whose every field comes from the latest call that set it, or from the
\* installation-time object when no call set it.
FieldsAccumulate(a, table, current, k) ==
  (/\ CallsNamingKey(a, table, k) # {}
   /\ \A i \in CallsNamingKey(a, table, k) : IsPlainObject(history[a].calls[i][table][k]))
  =>
  /\ IsPlainObject(current[k])
  /\ \A f \in FieldNames :
       current[k].fields[f] =
         IF CallsSettingField(a, table, k, f) # {}
         THEN history[a].calls[Latest(CallsSettingField(a, table, k, f))][table][k].fields[f]
         ELSE IF IsPlainObject(history[a].install[table][k])
              THEN history[a].install[table][k].fields[f]
              ELSE NoField

\* C10: when every override call that gives a type key gives it a plain object,
\* each field of the session's mock entry for that key holds the value of the
\* latest call that set the field, and fields set only earlier, or at
\* installation, are kept; the same for the resolver table.
C10_FieldsAccumulateAcrossCalls ==
  \A a \in Aliases :
    session[a].installed =>
      \A k \in MockKeys :
        /\ FieldsAccumulate(a, "mocks", session[a].currentMocks, k)
        /\ FieldsAccumulate(a, "resolvers", session[a].currentResolvers, k)

\* C10 witness: User installed as {name: A, age: B}, overridden with {name: A}
\* and then {name: B}: the entry is {name: B, age: B}.
C10_Witness ==
  \E a \in Aliases :
    /\ session[a].installed
    /\ history[a].install.mocks["User"] = NameAAgeB
    /\ Len(history[a].calls) = 2
    /\ history[a].calls[1].mocks # NoTable /\ history[a].calls[1].mocks["User"] = NameA
    /\ history[a].calls[2].mocks # NoTable /\ history[a].calls[2].mocks["User"] = NameB
    /\ session[a].currentMocks["User"] = Obj([name |-> "B", age |-> "B"])

-----------------------------------------------------------------------------
(* The fetch wrapper.                                                       *)

MaxRequests == 1       \* calls of the window's fetch
MaxTime == 2           \* milliseconds the clock runs

\* rootValue instanceof GraphQLError
InstanceOfGraphQLError(v) == v = GraphQLErrorLocal

\* rootValue.constructor, for a value that is neither null nor undefined
Constructor(v) ==
  CASE v = GraphQLErrorLocal -> [name |-> "GraphQLError", imported |-> TRUE]
    [] v = GraphQLErrorForeign -> [name |-> "GraphQLError", imported |-> FALSE]
    [] v = TypeErrorValue -> [name |-> "TypeError", imported |-> FALSE]
    [] v.kind = "error" -> [name |-> "Error", imported |-> FALSE]
    [] v.kind = "array" -> [name |-> "Array", imported |-> FALSE]
    [] v.kind = "function" -> [name |-> "Function", imported |-> FALSE]
    [] v.kind = "number" -> [name |-> "Number", imported |-> FALSE]
    [] v.kind = "string" -> [name |-> "String", imported |-> FALSE]
    [] OTHER -> [name |-> "Object", imported |-> FALSE]

\* The test of index.ts:147-153 with instanceof alone
ErrorCheckInstanceOnly(rootValue) ==
  IF InstanceOfGraphQLError(rootValue) THEN "error"
  ELSE IF rootValue.kind \in {"undefined", "null"} THEN "TypeError"
  ELSE "execute"

\* The test of index.ts:147-153: "error" when the root value is GraphQLError-like,
\* "execute" when it is not, "TypeError" when reading .constructor raises
ErrorCheck(rootValue) ==
  IF InstanceOfGraphQLError(rootValue) THEN "error"
  ELSE IF rootValue.kind \in {"undefined", "null"} THEN "TypeError"
  ELSE IF \/ Constructor(rootValue) = [name |-> "GraphQLError", imported |-> TRUE]
          \/ Constructor(rootValue).name = "GraphQLError"
       THEN "error"
       ELSE "execute"

\* Second test of the wrapper with the method left out
MatchesAnyMethod(endpoint, input, init) == IndexOf(input.url, endpoint) # -1 /\ init.given

\* input.indexOf(endpoint) !== -1 && init && init.method === "POST"
Matches(endpoint, input, init) ==
  IndexOf(input.url, endpoint) # -1 /\ init.given /\ init.method = "POST"

\* setTimeout(.., timeout)
TimerMs(timeout) == IF timeout.kind = "number" THEN timeout.id ELSE 0

NoInit == [given |-> FALSE, method |-> NoString, body |-> [json |-> FALSE, operationName |-> MissingName, variables |-> Undefined]]
RequestInit(method, body) == [given |-> TRUE, method |-> method, body |-> body]
Payload(operationName, variables) ==
  [json |-> TRUE, operationName |-> operationName, variables |-> variables]
Malformed == [json |-> FALSE, operationName |-> MissingName, variables |-> Undefined]
SyntaxErrorValue == Err(8)        \* raised by JSON.parse

NoExec ==
  [mocks |-> EmptyMocks, resolvers |-> EmptyMocks, operationName |-> MissingName,
   variables |-> Undefined, rootValue |-> Undefined]
NoBody == [kind |-> "none", errors |-> <<>>, result |-> NoExec]

\* JSON.stringify({ data: {}, errors: [rootValue] }): data is always {}
ErrorEnvelope(rootValue) == [kind |-> "errors", errors |-> <<rootValue>>, result |-> NoExec]
\* JSON.stringify(data), data the outcome of graphql() on the captured inputs
ResultBody(exec) == [kind |-> "result", errors |-> <<>>, result |-> exec]

\* What fetch returns: the promise originalFetch gave on its k-th call, or the
\* promise chain the wrapper builds for its own i-th call.
OriginalPromise(k) == [from |-> "originalFetch", id |-> k]
MockPromise(i) == [from |-> "wrapper", id |-> i]
NoPromise == [from |-> "none", id |-> 0]

NotYet == 0 - 1        \* a time that has not come

\* A call of the window's fetch, as the wrapper of session a sees it.
Call(a, input, init) ==
  [alias |-> a, endpoint |-> session[a].endpoint, input |-> input, init |-> init,
   at |-> now, route |-> "passed", pc |-> "returned", handlerThrew |-> FALSE,
   thrown |-> Undefined,
   rootValue |-> Undefined, delay |-> Undefined, exec |-> NoExec, due |-> now,
   settledAt |-> NotYet, answeredAt |-> now, body |-> NoBody,
   returned |-> OriginalPromise(Len(passed) + 1),
   seen |-> [commonMocks |-> commonMocks, closure |-> session[a]]]

\* function fetch(input, init) of index.ts:138-189
fetch(a, input, init) ==
  LET c == session[a]
      id == Len(requests) + 1
      payload == init.body
      root == getRootValue(c.currentOps, payload.operationName, payload.variables)
      rootValue == root.val
      handlerThrew == root.calls # <<>> /\ Invoke(root.calls[1].fn, root.calls[1].arg).threw
      thrown == IF handlerThrew THEN Invoke(root.calls[1].fn, root.calls[1].arg).val
                ELSE Undefined
      mocks == resolveMocks(SpreadTables(SpreadTables(EmptyMocks,
                 IF commonMocks = Null THEN NoTable ELSE commonMocks), c.currentMocks))
      exec == [mocks |-> mocks, resolvers |-> c.currentResolvers,
               operationName |-> payload.operationName, variables |-> payload.variables,
               rootValue |-> rootValue]
      pass == /\ passed' = Append(passed, [input |-> input, init |-> init, by |-> id])
              /\ requests' = Append(requests, Call(a, input, init))
              /\ ret' = Ok(OriginalPromise(Len(passed) + 1))
  IN  /\ c.installed /\ c.wrapped
      /\ args' = [fn |-> "fetch", input |-> input, init |-> init]
      /\ IF ~input.isString
         THEN pass
         ELSE IF Matches(c.endpoint, input, init)
         THEN /\ UNCHANGED passed
              /\ IF ~payload.json
                 THEN /\ requests' = Append(requests,
                           [Call(a, input, init) EXCEPT
                              !.route = "threw", !.pc = "threw", !.returned = NoPromise])
                      /\ ret' = Threw(SyntaxErrorValue)
                 ELSE CASE ErrorCheck(rootValue) = "TypeError" ->
                             /\ requests' = Append(requests,
                                  [Call(a, input, init) EXCEPT
                                     !.route = "threw", !.pc = "threw",
                                     !.returned = NoPromise,
                                     !.handlerThrew = handlerThrew, !.thrown = thrown,
                                     !.rootValue = rootValue])
                             /\ ret' = Threw(TypeErrorValue)
                        [] ErrorCheck(rootValue) = "error" ->
                             /\ requests' = Append(requests,
                                  [Call(a, input, init) EXCEPT
                                     !.route = "error", !.pc = "waiting",
                                     !.returned = MockPromise(id),
                                     !.handlerThrew = handlerThrew, !.thrown = thrown,
                                     !.rootValue = rootValue,
                                     !.delay = c.currentDelay,
                                     !.due = now + TimerMs(c.currentDelay)])
                             /\ ret' = Ok(MockPromise(id))
                        [] OTHER ->
                             /\ requests' = Append(requests,
                                  [Call(a, input, init) EXCEPT
                                     !.route = "execute", !.pc = "executing",
                                     !.returned = MockPromise(id),
                                     !.handlerThrew = handlerThrew, !.thrown = thrown,
                                     !.rootValue = rootValue,
                                     !.delay = c.currentDelay, !.exec = exec])
                             /\ ret' = Ok(MockPromise(id))
         ELSE pass
      /\ UNCHANGED <<commonMocks, commonOptions, session, history, now, log>>

\* graphqlSettles reading currentDelay only when graphql(..) has settled
graphqlSettlesLateDelay(i) ==
  /\ requests[i].pc = "executing"
  /\ requests' = [requests EXCEPT
       ![i].pc = "waiting",
       ![i].settledAt = now,
       ![i].due = now + TimerMs(session[requests[i].alias].currentDelay)]
  /\ UNCHANGED <<commonMocks, commonOptions, session, history, passed, now, log, args, ret>>

\* graphql(..) settles and the timer made by wait(currentDelay), an argument
\* evaluated when fetch was called, is armed
graphqlSettles(i) ==
  /\ requests[i].pc = "executing"
  /\ requests' = [requests EXCEPT ![i].pc = "waiting",
                                  ![i].settledAt = now,
                                  ![i].due = now + TimerMs(requests[i].delay)]
  /\ UNCHANGED <<commonMocks, commonOptions, session, history, passed, now, log, args, ret>>

\* timers firing only in the order the requests were made
timerFiresInOrder(i) ==
  /\ requests[i].pc = "waiting"
  /\ now >= requests[i].due
  /\ \A j \in 1..(i - 1) : requests[j].pc \in {"returned", "threw", "responded"}
  /\ requests' = [requests EXCEPT
       ![i].pc = "responded",
       ![i].answeredAt = now,
       ![i].body = IF requests[i].route = "error"
                   THEN ErrorEnvelope(requests[i].rootValue)
                   ELSE ResultBody(requests[i].exec)]
  /\ UNCHANGED <<commonMocks, commonOptions, session, history, passed, now, log, args, ret>>

\* the timer of wait() fires and the Response is made
timerFires(i) ==
  /\ requests[i].pc = "waiting"
  /\ now >= requests[i].due
  /\ requests' = [requests EXCEPT
       ![i].pc = "responded",
       ![i].answeredAt = now,
       ![i].body = IF requests[i].route = "error"
                   THEN ErrorEnvelope(requests[i].rootValue)
                   ELSE ResultBody(requests[i].exec)]
  /\ UNCHANGED <<commonMocks, commonOptions, session, history, passed, now, log, args, ret>>

tick ==
  /\ now < MaxTime
  /\ now' = now + 1
  /\ UNCHANGED <<commonMocks, commonOptions, session, history, requests, passed, log, args, ret>>

-----------------------------------------------------------------------------
(* Requests through the wrapper of an installed session.  fetch(a, ..) is   *)
(* the wrapper that the installation under alias a put on the window; its   *)
(* originalFetch is whatever the window's fetch was before.                 *)

Url(url) == [isString |-> TRUE, url |-> url]
RequestObject == [isString |-> FALSE, url |-> "/graphql"]    \* new Request("/graphql")

FetchCalls ==
  {[input |-> Url("/graphql"), init |-> RequestInit("POST", Payload("Fails", Undefined))],
   [input |-> Url("/graphql"), init |-> RequestInit("POST", Payload("Ping", NameA))],
   [input |-> Url("/api/graphql?x"), init |-> RequestInit("POST", Payload("Fails", NameA))],
   [input |-> Url("/graphql"), init |-> RequestInit("POST", Payload(MissingName, Undefined))],
   [input |-> Url("/graphql"), init |-> RequestInit("POST", Malformed)],
   [input |-> Url("/graphql"), init |-> RequestInit("GET", Payload("Ping", NameA))],
   [input |-> Url("/graphql"), init |-> NoInit],
   [input |-> Url("/graph"), init |-> RequestInit("POST", Payload("Ping", NameA))],
   [input |-> RequestObject, init |-> RequestInit("POST", Payload("Ping", NameA))]}

FetchInstallOptions ==
  {Opt(NoString, NoString, [Ping |-> Fn(1), Fails |-> Fn(2)],
       [User |-> NameA, EnumField |-> Absent], NoTable, Undefined, SchemaText),
   Opt(NoString, NoString, [Ping |-> Fn(4), Fails |-> Fn(3)],
       NoTable, NoTable, Num(1), SchemaText),
   Opt(NoString, "/api", [Ping |-> Fn(5), Fails |-> Fn(8)],
       NoTable, [User |-> AgeA, EnumField |-> Absent], Num(2), SchemaText),
   NoOptions}

NextFetch ==
  \/ requests = <<>> /\ \E options \in FetchInstallOptions : mockGraphql(options)
  \/ windowBeforeLoad
  \/ /\ Len(requests) < MaxRequests
     /\ \E a \in Aliases, call \in FetchCalls : fetch(a, call.input, call.init)
  \/ \E i \in 1..Len(requests) : graphqlSettles(i)
  \/ \E i \in 1..Len(requests) : timerFires(i)
  \/ tick
SpecFetch == InitCalls /\ [][NextFetch]_vars

\* part occurs somewhere in str
Contains(str, part) ==
  \E i \in 1..(Len(Text(str)) + 1), j \in 0..Len(Text(str)) :
    SubSeq(Text(str), i, j) = Text(part)

OriginalCallsBy(i) == {k \in 1..Len(passed) : passed[k].by = i}

\* C2: a request whose target is not a string, or does not contain the endpoint,
\* or whose method is not POST (no init included) reaches the original fetch
\* exactly once, with the same arguments, and gets what it returned; any other
\* request never reaches the original fetch.
C2_PassThroughExactlyWhenNotMatching ==
  \A i \in 1..Len(requests) :
    LET r == requests[i]
        notMatching == \/ ~r.input.isString
                       \/ ~Contains(r.input.url, r.endpoint)
                       \/ ~r.init.given
                       \/ r.init.method # "POST"
    IN  IF notMatching
        THEN /\ Cardinality(OriginalCallsBy(i)) = 1
             /\ \A k \in OriginalCallsBy(i) :
                  /\ passed[k].input = r.input
                  /\ passed[k].init = r.init
                  /\ r.returned = OriginalPromise(k)
        ELSE OriginalCallsBy(i) = {}

C2_Witness ==
  \E i \in 1..Len(requests) :
    /\ requests[i].input.isString
    /\ Contains(requests[i].input.url, requests[i].endpoint)
    /\ requests[i].init.given /\ requests[i].init.method = "GET"
    /\ OriginalCallsBy(i) # {}
    /\ requests[i].returned = OriginalPromise(1)

GraphQLErrorLike(e) == e \in {GraphQLErrorLocal, GraphQLErrorForeign}
EnvelopeOf(e) == [kind |-> "errors", errors |-> <<e>>, result |-> NoExec]

\* C3 (as stated): whatever value a handler throws, the fetch call does not fail
\* and the answer, after the delay, has the body { data: {}, errors: [E] }.
C3_AnyThrownValueAnsweredAsError ==
  \A i \in 1..Len(requests) :
    LET r == requests[i]
    IN  r.handlerThrew =>
          /\ r.route # "threw"
          /\ r.pc = "responded" =>
                /\ r.body = EnvelopeOf(r.thrown)
                /\ r.answeredAt >= r.at + TimerMs(r.delay)

\* C3 (amended): a thrown GraphQLError-like value E is answered, no sooner than
\* the delay in force at the call, with { data: {}, errors: [E] } and the fetch
\* call does not fail; a thrown null or undefined makes the fetch call itself
\* raise; any other thrown value becomes the root value of a normal execution.
C3_ThrownValueOutcome ==
  \A i \in 1..Len(requests) :
    LET r == requests[i]
    IN  r.handlerThrew =>
          IF GraphQLErrorLike(r.thrown)
          THEN /\ r.route # "threw"
               /\ r.returned = MockPromise(i)
               /\ OriginalCallsBy(i) = {}
               /\ r.pc # "responded" => r.body = NoBody
               /\ r.pc = "responded" =>
                     /\ r.body = EnvelopeOf(r.thrown)
                     /\ r.answeredAt >= r.at + TimerMs(r.delay)
          ELSE IF r.thrown \in {Null, Undefined}
          THEN r.route = "threw" /\ r.pc = "threw"
          ELSE /\ r.route = "execute"
               /\ r.pc = "responded" =>
                     /\ r.body.kind = "result"
                     /\ r.body.result.rootValue = r.thrown

C3_Witness ==
  \E i \in 1..Len(requests) :
    /\ requests[i].handlerThrew
    /\ requests[i].thrown = GraphQLErrorForeign
    /\ TimerMs(requests[i].delay) > 0
    /\ requests[i].pc = "responded"
    /\ requests[i].body = EnvelopeOf(GraphQLErrorForeign)

-----------------------------------------------------------------------------
(* Installing sessions, with and without a base configuration, and          *)
(* reaching them again through mockGraphqlOps.                              *)

InstallBaseOptions ==
  BaseOptions \cup {Opt("users", NoString, NoTable, NoTable, NoTable, Undefined, Undefined)}

InstallCalls ==
  {NoOptions,
   Opt(NoString, NoString, NoTable, NoTable, NoTable, Undefined, SchemaText),
   Opt("users", NoString, NoTable, NoTable, NoTable, Num(1), SchemaText),
   Opt(NoString, "/api", [Ping |-> NameA, Fails |-> Absent], NoTable, NoTable,
       Undefined, Undefined)}

RetrieveCalls ==
  {Opt(NoString, NoString, NoTable, NoTable, NoTable, Num(1), Undefined),
   Opt("users", NoString, NoTable, NoTable, NoTable, Num(1), Undefined),
   Opt(NoString, "/api", NoTable, NoTable, NoTable, Num(1), Undefined)}

\* The base configuration is set, if at all, before the first test command.
NextInstall ==
  \/ log = <<>> /\ \E options \in InstallBaseOptions : setBaseOperationOptions(options)
  \/ \E options \in InstallCalls : mockGraphql(options)
  \/ windowBeforeLoad
  \/ \E options \in RetrieveCalls : mockGraphqlOps(options)
  \/ mockGraphqlOpsNoArgument
SpecInstall == InitCalls /\ [][NextInstall]_vars

SameNameAndEndpoint(o1, o2) == o1.name = o2.name /\ o1.endpoint = o2.endpoint

\* C11: a mockGraphqlOps call carrying the name and endpoint fields of the
\* mockGraphql call that installed a session reaches that session: it does not
\* fail and its options are the last ones applied to the session.
C11_RetrievableBySameFields ==
  (args.fn = "mockGraphqlOps" /\ args.options # Undefined) =>
    \A a \in Aliases :
      (session[a].installed /\ SameNameAndEndpoint(history[a].options, args.options)) =>
        /\ ~ret.threw
        /\ history[a].calls # <<>>
        /\ LastCall(a) = args.options

\* The same, for sessions whose name and endpoint do not come from the base
\* configuration.
RetrievableWithoutBaseNaming ==
  (args.fn = "mockGraphqlOps" /\ args.options # Undefined) =>
    \A a \in Aliases :
      ( /\ session[a].installed
        /\ SameNameAndEndpoint(history[a].options, args.options)
        /\ \/ commonOptions = Null
           \/ (commonOptions.name = NoString /\ commonOptions.endpoint = NoString) ) =>
        /\ ~ret.threw
        /\ history[a].calls # <<>>
        /\ LastCall(a) = args.options

SchemaGiven(o) == o # Null /\ o # Undefined /\ Truthy(o.schema)

\* C12: a mockGraphql call fails, with the schema error, exactly when neither
\* its options nor the base configuration give a schema; a failing call leaves
\* every session and handle as it was, and a succeeding one registers the
\* session under its handle.
C12_InstallFailsExactlyWithoutSchema ==
  /\ [](args.fn = "mockGraphql" =>
          /\ ret.threw <=> (~SchemaGiven(args.options) /\ ~SchemaGiven(commonOptions))
          /\ ret.threw => ret.val = SchemaError
          /\ ~ret.threw =>
                \E a \in Aliases :
                  /\ session[a].installed
                  /\ history[a].options = args.options
                  /\ history[a].calls = <<>>)
  /\ [][(args'.fn = "mockGraphql" /\ ret'.threw /\ <<args', ret'>> # <<args, ret>>) =>
          UNCHANGED <<session, history>>]_vars

C12_Witness ==
  /\ args.fn = "mockGraphql"
  /\ ret.threw /\ ret.val = SchemaError
  /\ commonOptions # Null
  /\ \A a \in Aliases : ~session[a].installed /\ ~session[a].wrapped

-----------------------------------------------------------------------------
(* Base mocks under the mocks of a session, as a request sees them.  The    *)
(* sessions here have no delay, so the clock stays where it is.             *)

MockedInstalls ==
  {Opt(NoString, NoString, [Ping |-> Fn(1), Fails |-> Fn(2)], NoTable, NoTable,
       Undefined, SchemaText),
   Opt(NoString, NoString, [Ping |-> NameA, Fails |-> Fn(2)],
       [User |-> NameB, EnumField |-> Absent], NoTable, Undefined, SchemaText),
   Opt(NoString, NoString, NoTable,
       [User |-> Absent, EnumField |-> Num(0)], NoTable, Undefined, SchemaText)}

MockedOverrides ==
  {Opt(NoString, NoString, NoTable, [User |-> AgeA, EnumField |-> Absent], NoTable,
       Undefined, Undefined),
   Opt(NoString, NoString, NoTable, [User |-> Undefined, EnumField |-> Fn(1)], NoTable,
       Undefined, Undefined)}

MockedCalls ==
  {[input |-> Url("/graphql"), init |-> RequestInit("POST", Payload("Ping", NameA))],
   [input |-> Url("/graphql"), init |-> RequestInit("POST", Payload("Fails", Undefined))],
   [input |-> Url("/graphql"), init |-> RequestInit("GET", Payload("Ping", NameA))]}

NextMocked ==
  \/ log = <<>> /\ \E mocks \in BaseMocks : setBaseGraphqlMocks(mocks)
  \/ requests = <<>> /\ \E options \in MockedInstalls : mockGraphql(options)
  \/ windowBeforeLoad
  \/ \E options \in MockedOverrides : mockGraphqlOps(options)
  \/ /\ Len(requests) < MaxRequests
     /\ \E a \in Aliases, call \in MockedCalls : fetch(a, call.input, call.init)
  \/ \E i \in 1..Len(requests) : graphqlSettles(i)
  \/ \E i \in 1..Len(requests) : timerFires(i)
SpecMocked == InitCalls /\ [][NextMocked]_vars

\* What the function at a key of a resolved table gives when called (the
\* function itself when the mock was one).
Unthunk(t) == IF t.kind = "thunk" THEN V(t.of, t.id, t.fields) ELSE t

HasKey(t, k) == t # Null /\ k \in DOMAIN t /\ t[k] # Absent

\* C13: the mock table a non-error request is executed with has the keys of the
\* base mocks (when set) and of the session's mocks as they were at the call;
\* at a key of the session's mocks the session's entry is used, at any other
\* key the base entry; without base mocks it is the session's table.
C13_BaseMocksUnderSessionMocks ==
  \A i \in 1..Len(requests) :
    LET r == requests[i]
        base == r.seen.commonMocks
        current == r.seen.closure.currentMocks
        used == r.exec.mocks
    IN  r.route = "execute" =>
          \A k \in MockKeys :
            /\ HasKey(used, k) <=> (HasKey(base, k) \/ HasKey(current, k))
            /\ HasKey(current, k) => Unthunk(used[k]) = current[k]
            /\ (~HasKey(current, k) /\ HasKey(base, k)) => Unthunk(used[k]) = base[k]

C13_Witness ==
  \E i \in 1..Len(requests) :
    /\ requests[i].route = "execute"
    /\ requests[i].seen.commonMocks = [User |-> Fn(1), EnumField |-> Fn(1)]
    /\ requests[i].seen.closure.currentMocks = [User |-> NameB, EnumField |-> Absent]
    /\ requests[i].exec.mocks = [User |-> Thunk(NameB), EnumField |-> Fn(1)]
    /\ requests[i].pc = "responded"

-----------------------------------------------------------------------------
(* Requests in flight together, and overrides applied while they are.       *)

MaxInFlight == 2       \* calls of the window's fetch

FlightInstalls ==
  {Opt(NoString, NoString, [Ping |-> Fn(1), Fails |-> Fn(2)],
       [User |-> NameA, EnumField |-> Absent], NoTable, Num(2), SchemaText),
   Opt(NoString, NoString, [Ping |-> Fn(7), Fails |-> Fn(3)],
       NoTable, NoTable, Num(1), SchemaText)}

FlightOverrides ==
  {Opt(NoString, NoString, [Ping |-> NameB, Fails |-> Fn(5)],
       [User |-> AgeB, EnumField |-> Absent], [User |-> AgeA, EnumField |-> Absent],
       Undefined, Undefined)}

FlightCalls ==
  {[input |-> Url("/graphql"), init |-> RequestInit("POST", Payload("Ping", NameA))],
   [input |-> Url("/graphql"), init |-> RequestInit("POST", Payload("Fails", Undefined))]}

\* Time is let pass only while some timer is still to come.
TimerPending == \E i \in 1..Len(requests) : requests[i].pc = "waiting" /\ requests[i].due > now

NextFlight ==
  \/ requests = <<>> /\ \E options \in FlightInstalls : mockGraphql(options)
  \/ windowBeforeLoad
  \/ \E options \in FlightOverrides : mockGraphqlOps(options)
  \/ /\ Len(requests) < MaxInFlight
     /\ \E a \in Aliases, call \in FlightCalls : fetch(a, call.input, call.init)
  \/ \E i \in 1..Len(requests) : graphqlSettles(i)
  \/ \E i \in 1..Len(requests) : timerFires(i)
  \/ TimerPending /\ tick
SpecFlight == InitCalls /\ [][NextFlight]_vars

\* The event loop runs every continuation and timer that is ready, and time passes.
SpecFlightFair ==
  /\ SpecFlight
  /\ \A i \in 1..MaxInFlight :
       WF_vars(i <= Len(requests) /\ graphqlSettles(i))
       /\ WF_vars(i <= Len(requests) /\ timerFires(i))
  /\ WF_vars(TimerPending /\ tick)

Millis(delay) == IF delay.kind = "number" THEN delay.id ELSE 0
InFlight(r) == r.pc \in {"executing", "waiting"}

Intercepted(r) == r.route \in {"error", "execute", "threw"}

\* C14: a request is answered only once its own execution has settled and its
\* own delay has passed since, and whether it can take its next step depends on
\* nothing but its own progress and the clock, never on another request.
C14_RequestsAnsweredIndependently ==
  \A i \in 1..Len(requests) :
    LET r == requests[i]
    IN  /\ (Intercepted(r) /\ r.pc # "responded") => r.body = NoBody
        /\ (r.route = "execute" /\ r.pc = "executing") => r.settledAt = NotYet
        /\ (r.route = "execute" /\ r.pc \in {"waiting", "responded"}) =>
              /\ r.settledAt >= r.at
              /\ r.due = r.settledAt + Millis(r.delay)
        /\ r.pc = "responded" =>
              /\ r.answeredAt >= r.at + Millis(r.delay)
              /\ r.route = "execute" => r.answeredAt >= r.settledAt + Millis(r.delay)
        /\ r.pc = "executing" => ENABLED graphqlSettles(i)
        /\ (r.pc = "waiting" /\ now >= r.due) => ENABLED timerFires(i)

\* C14 witness: the second request, made no earlier than the first and with a
\* shorter delay, is answered while the first still waits.
C14_Witness ==
  /\ Len(requests) = 2
  /\ requests[1].pc = "waiting" /\ requests[2].pc = "responded"
  /\ requests[2].at >= requests[1].at
  /\ Millis(requests[2].delay) < Millis(requests[1].delay)
  /\ requests[2].answeredAt < requests[1].due

WellFormed(r) == Intercepted(r) /\ r.init.body.json
BeyondClock(r) == r.pc = "waiting" /\ r.due > MaxTime
Made(i) == i <= Len(requests)
Settled(i) == Made(i) /\ (requests[i].pc = "responded" \/ BeyondClock(requests[i]))

\* C16: every intercepted request with a well-formed body is eventually
\* answered (as far as the clock of the model runs: a request may still be
\* waiting for a timer due after MaxTime).
C16_EveryRequestAnswered ==
  \A i \in 1..MaxInFlight :
    []((Made(i) /\ WellFormed(requests[i])) => <>Settled(i))

\* The same for the requests whose root value is neither null nor undefined,
\* and an answer once given is never replaced.
AnsweredOnceUnlessRootValueNull ==
  /\ \A i \in 1..MaxInFlight :
       []((Made(i) /\ WellFormed(requests[i])
              /\ requests[i].rootValue.kind \notin {"null", "undefined"})
            => <>Settled(i))
  /\ [][\A i \in 1..Len(requests) :
          requests[i].pc = "responded" => requests'[i] = requests[i]]_vars

\* C17: the delay a request waits for, its root value, its mocks and resolvers
\* and its answer are those of the session as it was when fetch was called,
\* whatever mockGraphqlOps has done to the session since.
C17_AnsweredFromConfigurationAtCall ==
  \A i \in 1..Len(requests) :
    LET r == requests[i]
        seen == r.seen.closure
    IN  r.route \in {"error", "execute"} =>
          /\ r.delay = seen.currentDelay
          /\ r.rootValue = getRootValue(seen.currentOps, r.init.body.operationName,
                                         r.init.body.variables).val
          /\ r.route = "error" => r.due = r.at + Millis(seen.currentDelay)
          /\ (r.route = "execute" /\ r.settledAt # NotYet) =>
                r.due = r.settledAt + Millis(seen.currentDelay)
          /\ r.route = "execute" =>
                /\ r.exec.resolvers = seen.currentResolvers
                /\ r.exec.rootValue = r.rootValue
                /\ \A k \in MockKeys :
                     HasKey(seen.currentMocks, k) =>
                       Unthunk(r.exec.mocks[k]) = seen.currentMocks[k]
          /\ r.pc = "responded" =>
                /\ r.answeredAt >= r.due
                /\ r.body = IF r.route = "error" THEN EnvelopeOf(r.rootValue)
                            ELSE [kind |-> "result", errors |-> <<>>, result |-> r.exec]

\* C17 witness: a request made before an override is answered after it from
\* the old configuration, and a request made after the override sees the new.
C17_Witness ==
  /\ Len(requests) = 2
  /\ requests[1].alias = requests[2].alias
  /\ requests[1].init = requests[2].init
  /\ requests[1].pc = "responded" /\ requests[1].route = "execute"
  /\ requests[1].answeredAt > requests[2].at
  /\ requests[1].rootValue = PingResult /\ requests[2].rootValue = NameB
  /\ Millis(requests[1].delay) = 2 /\ Millis(requests[2].delay) = 0
  /\ requests[1].exec.mocks["User"] = Thunk(NameA)
  /\ session[requests[1].alias].currentMocks["User"] = Obj([name |-> "A", age |-> "B"])

-----------------------------------------------------------------------------
(* resolveMocks on its own.                                                 *)

ResolveEntries == MockEntries \cup {Undefined, Str(1), Fn(2)}
ResolveTables == [MockKeys -> ResolveEntries]

InitResolve ==
  /\ Loaded
  /\ args \in {[fn |-> "resolveMocks", mocks |-> m] : m \in ResolveTables}
  /\ ret = NoRet

CallResolveMocks ==
  /\ args.fn = "resolveMocks"
  /\ ~ret.done
  /\ ret' = [done |-> TRUE, val |-> resolveMocks(args.mocks)]
  /\ UNCHANGED <<commonMocks, commonOptions, session, history, requests, passed, now, log, args>>

NextResolve == CallResolveMocks
SpecResolve == InitResolve /\ [][NextResolve]_vars

\* C15: resolveMocks gives a table with the keys of its argument; an entry that
\* was a function is that same function, any other entry is a function of no
\* arguments that returns the entry as it was, nested fields included.
C15_ResolvedEntriesAreFunctions ==
  (args.fn = "resolveMocks" /\ ret.done) =>
    /\ DOMAIN ret.val = DOMAIN args.mocks
    /\ \A k \in DOMAIN args.mocks :
         IF args.mocks[k] = Absent
         THEN ret.val[k] = Absent
         ELSE /\ ret.val[k].kind \in {"function", "thunk"}
              /\ args.mocks[k].kind = "function" => ret.val[k] = args.mocks[k]
              /\ args.mocks[k].kind # "function" =>
                    /\ ret.val[k].kind = "thunk"
                    /\ Unthunk(ret.val[k]) = args.mocks[k]

C15_Witness ==
  /\ args.fn = "resolveMocks" /\ ret.done
  /\ args.mocks = [User |-> Obj([name |-> "A", age |-> "B"]), EnumField |-> Fn(2)]
  /\ ret.val = [User |-> Thunk(Obj([name |-> "A", age |-> "B"])), EnumField |-> Fn(2)]

-----------------------------------------------------------------------------
(* Several sessions in one test, and overrides addressed to each.           *)

TwoInstalls ==
  {Opt(NoString, NoString, [Ping |-> NameA, Fails |-> Fn(2)],
       [User |-> NameA, EnumField |-> Absent], [User |-> AgeA, EnumField |-> Absent],
       Num(2), SchemaText),
   Opt("users", "/api", [Ping |-> Fn(1), Fails |-> Absent],
       [User |-> AgeB, EnumField |-> Absent], NoTable, Undefined, SchemaText),
   Opt("users", NoString, NoTable, NoTable, NoTable, Num(1), SchemaText)}

TwoOverrides ==
  {Opt(NoString, NoString, [Ping |-> NameB, Fails |-> Absent], NoTable, NoTable,
       Num(1), Undefined),
   Opt(NoString, NoString, NoTable, [User |-> NameB, EnumField |-> Absent],
       [User |-> AgeB, EnumField |-> Absent], Undefined, Undefined),
   Opt(NoString, NoString, NoTable, NoTable, NoTable, Undefined, Undefined),
   Opt("users", "/api", [Ping |-> NameB, Fails |-> Absent], NoTable, NoTable,
       Num(1), Undefined),
   Opt("users", NoString, NoTable, [User |-> NameB, EnumField |-> Absent],
       [User |-> AgeB, EnumField |-> Absent], Undefined, Undefined),
   Opt("users", NoString, NoTable, NoTable, NoTable, Undefined, Undefined)}

TwoBaseMocks == [User |-> Fn(1), EnumField |-> Fn(1)]
TwoBaseOptions == Opt(NoString, NoString, NoTable, NoTable, NoTable, Undefined, SchemaText)

\* The base slots are filled, if at all, before the first test command.
NextTwo ==
  \/ /\ log = <<>> /\ \A a \in Aliases : ~session[a].installed
     /\ setBaseGraphqlMocks(TwoBaseMocks)
  \/ /\ Len(log) = 1 /\ \A a \in Aliases : ~session[a].installed
     /\ setBaseOperationOptions(TwoBaseOptions)
  \/ \E options \in TwoInstalls : mockGraphql(options)
  \/ \E options \in TwoOverrides : mockGraphqlOps(options)
  \/ mockGraphqlOpsNoArgument
SpecTwo == InitCalls /\ [][NextTwo]_vars


GivesNo(o, part) == o = Undefined \/ o[part] = NoTable
SameTable(part) == \A a \in Aliases : session'[a][part] = session[a][part]

\* C18: a mockGraphqlOps call never changes the base slots, nor the endpoint,
\* the schema or the registration of any session, and it leaves the mock table
\* alone when it gives no mocks, the resolver table when it gives no
\* resolvers, the operation table when it gives no operations.
C18_OverrideChangesOnlyWhatItGives ==
  [][args'.fn = "mockGraphqlOps" =>
       /\ commonMocks' = commonMocks
       /\ commonOptions' = commonOptions
       /\ SameTable("endpoint") /\ SameTable("schema")
       /\ SameTable("installed") /\ SameTable("wrapped")
       /\ GivesNo(args'.options, "mocks") => SameTable("currentMocks")
       /\ GivesNo(args'.options, "resolvers") => SameTable("currentResolvers")
       /\ GivesNo(args'.options, "operations") => SameTable("currentOps")]_vars

\* C18 witness: after base mocks were set, a call giving operations and a delay
\* but no mocks and no resolvers has changed the operation table of its
\* session and left the mocks and resolvers as installed.
C18_Witness ==
  /\ commonMocks = TwoBaseMocks
  /\ args.fn = "mockGraphqlOps" /\ args.options # Undefined
  /\ args.options.name = NoString
  /\ args.options.mocks = NoTable /\ args.options.operations # NoTable
  /\ ~ret.threw
  /\ Len(history["mockGraphqlOps"].calls) = 1
  /\ session["mockGraphqlOps"].currentOps["Ping"] = NameB
  /\ session["mockGraphqlOps"].currentMocks = [User |-> NameA, EnumField |-> Absent]
  /\ session["mockGraphqlOps"].currentResolvers = [User |-> AgeA, EnumField |-> Absent]

FieldsOf(o) == [name |-> o.name, endpoint |-> o.endpoint]
\* name, else endpoint, else nothing
HandleName(f) ==
  IF f.name # NoString THEN f.name ELSE IF f.endpoint # NoString THEN f.endpoint ELSE ""
\* Some session, still reachable or not, was installed from these fields.
InstalledFrom(f) ==
  \E a \in Aliases : (session[a].installed /\ history[a].fields = f) \/ f \in history[a].displaced
Untouched(b) ==
  /\ session'[b].currentDelay = session[b].currentDelay
  /\ session'[b].currentOps = session[b].currentOps
  /\ session'[b].currentMocks = session[b].currentMocks
  /\ session'[b].currentResolvers = session[b].currentResolvers

\* C19 (as stated): a mockGraphqlOps call carrying the name and endpoint of one
\* installed session changes nothing of a session installed with another name
\* or another endpoint.
C19_OverrideLeavesOtherSessionsAlone ==
  [][(args'.fn = "mockGraphqlOps" /\ args'.options # Undefined) =>
       \A b \in Aliases :
         ( /\ session[b].installed
           /\ InstalledFrom(FieldsOf(args'.options))
           /\ FieldsOf(args'.options) # history[b].fields ) => Untouched(b)]_vars

\* C19 (amended): a mockGraphqlOps call changes nothing of a session whose
\* handle name (name, else endpoint, else the default) differs from the one
\* the call's own name and endpoint give.
C19_OverrideLeavesOtherHandlesAlone ==
  [][(args'.fn = "mockGraphqlOps" /\ args'.options # Undefined) =>
       \A b \in Aliases :
         ( /\ session[b].installed
           /\ HandleName(FieldsOf(args'.options)) # HandleName(history[b].fields) )
           => Untouched(b)]_vars

\* C19 witness: two sessions under different handles, each overridden through
\* its own handle, each with the operation entry its own calls gave it.
C19_Witness ==
  /\ session["mockGraphqlOps"].installed /\ session["mockGraphqlOps:users"].installed
  /\ history["mockGraphqlOps"].calls # <<>> /\ history["mockGraphqlOps:users"].calls # <<>>
  /\ args.fn = "mockGraphqlOps" /\ args.options # Undefined /\ args.options.name = "users"
  /\ args.options.operations # NoTable
  /\ session["mockGraphqlOps:users"].currentOps["Ping"] = NameB
  /\ session["mockGraphqlOps"].currentOps["Ping"] = NameA
  /\ session["mockGraphqlOps"].currentMocks["User"] = NameB
  /\ session["mockGraphqlOps:users"].currentMocks["User"] = AgeB

====
